---------------------------- MODULE Spec2Model ----------------------------
(***************************************************************************)
(* Certificate generator (script.py and "Certificate for Winners"/script.py) *)
(* as state machines: the name normalizer, the page exporter's scaling      *)
(* arithmetic, main's argument handling, the batch driver with the render   *)
(* function, and two concurrent runs sharing a working directory.           *)
(*                                                                         *)
(* Strings are sequences of one-character strings.                          *)
(***************************************************************************)
EXTENDS Integers, Sequences, FiniteSets, TLC

VARIABLES
    \* title_case_name
    tInput, tOutput, tPc,
    \* page exporter arithmetic
    sW, sH, sOut, sPc,
    \* main
    mVariant, argc, badArg, mPc, mFontPath, mFontSize,
    \* one call of the render function
    rVariant, rText, rFontPath, rEnv, rRet, rPc,
    \* process_names_from_file
    bVariant, bFontPath, fileOk, fileLines, bPc, names, total_names, idx,
    successful, failed, rendered, results, outFiles, tempFiles, printed,
    \* two concurrent runs in one working directory
    cPc, cId, disk, embedded, overwrote, deleted

titleVars == <<tInput, tOutput, tPc>>
scaleVars == <<sW, sH, sOut, sPc>>
mainVars == <<mVariant, argc, badArg, mPc, mFontPath, mFontSize>>
renderVars == <<rVariant, rText, rFontPath, rEnv, rRet, rPc>>
batchVars == <<bVariant, bFontPath, fileOk, fileLines, bPc, names, total_names,
               idx, successful, failed, rendered, results, outFiles, tempFiles,
               printed>>
concVars == <<cPc, cId, disk, embedded, overwrote, deleted>>
vars == <<titleVars, scaleVars, mainVars, renderVars, batchVars, concVars>>

\* what the actions of one specification leave alone
notTitle == <<scaleVars, mainVars, renderVars, batchVars, concVars>>
notScale == <<titleVars, mainVars, renderVars, batchVars, concVars>>
notMain == <<titleVars, scaleVars, renderVars, batchVars, concVars>>
notRender == <<titleVars, scaleVars, mainVars, batchVars, concVars>>
notBatch == <<titleVars, scaleVars, mainVars, renderVars, concVars>>
notConc == <<titleVars, scaleVars, mainVars, renderVars, batchVars>>

(***************************************************************************)
(* Bounds                                                                  *)
(***************************************************************************)
MaxLen == 4

(***************************************************************************)
(* Characters: str.strip()/str.split() treat every whitespace character    *)
(* alike; str.capitalize() upper-cases the first character and lower-cases  *)
(* the rest, leaving characters without case unchanged.                     *)
(***************************************************************************)
Whitespace == {" ", "\t"}
LowerLetters == <<"a", "b">>
UpperLetters == <<"A", "B">>
Alphabet == {"a", "B", " ", "\t", "_"}

IsSpace(c) == c \in Whitespace

Upper(c) ==
    IF \E i \in 1..Len(LowerLetters) : LowerLetters[i] = c
    THEN UpperLetters[CHOOSE i \in 1..Len(LowerLetters) : LowerLetters[i] = c]
    ELSE c

Lower(c) ==
    IF \E i \in 1..Len(UpperLetters) : UpperLetters[i] = c
    THEN LowerLetters[CHOOSE i \in 1..Len(UpperLetters) : UpperLetters[i] = c]
    ELSE c

\* str.lstrip / str.rstrip / str.strip
RECURSIVE LStrip(_)
LStrip(s) == IF s # <<>> /\ IsSpace(Head(s)) THEN LStrip(Tail(s)) ELSE s

RECURSIVE RStrip(_)
RStrip(s) ==
    IF s # <<>> /\ IsSpace(s[Len(s)]) THEN RStrip(SubSeq(s, 1, Len(s) - 1)) ELSE s

Strip(s) == RStrip(LStrip(s))

\* length of the leading run of non-whitespace characters
RECURSIVE WordLen(_)
WordLen(s) == IF s = <<>> \/ IsSpace(Head(s)) THEN 0 ELSE 1 + WordLen(Tail(s))

\* str.split() with no separator: runs of whitespace separate, no empty words
RECURSIVE Split(_)
Split(s) ==
    LET t == LStrip(s) IN
    IF t = <<>> THEN <<>>
    ELSE <<SubSeq(t, 1, WordLen(t))>> \o Split(SubSeq(t, WordLen(t) + 1, Len(t)))

CapitalizeUpperOnly(w) ==
    IF w = <<>> THEN w ELSE <<Upper(Head(w))>> \o Tail(w)

\* str.capitalize()
Capitalize(w) ==
    IF w = <<>> THEN w
    ELSE <<Upper(Head(w))>> \o [i \in 1..(Len(w) - 1) |-> Lower(w[i + 1])]

\* ' '.join(words)
RECURSIVE Join(_)
Join(ws) ==
    IF ws = <<>> THEN <<>>
    ELSE IF Len(ws) = 1 THEN ws[1]
    ELSE ws[1] \o <<" ">> \o Join(Tail(ws))

title_case_name(name) ==
    LET words == Split(Strip(name))
        title_cased_words == [i \in 1..Len(words) |-> Capitalize(words[i])]
    IN Join(title_cased_words)

\* str.replace(' ', '_')
ReplaceSpaces(s) == [i \in 1..Len(s) |-> IF s[i] = " " THEN "_" ELSE s[i]]

-------------------------------------------------------------------------
(***************************************************************************)
(* Python floats are IEEE-754 doubles.  A non-zero double is modelled      *)
(* exactly: neg is its sign, m its 53 significand bits (most significant   *)
(* first, m[1] = 1) and e the exponent of m[1], so that its magnitude is   *)
(* the sum of m[i] * 2^(e - i + 1); zero has no bits.  Every operation     *)
(* returns the exact result rounded to nearest, ties to even, as the       *)
(* hardware does.                                                          *)
(***************************************************************************)
Prec == 53

Zeros(k) == [i \in 1..k |-> 0]
FZero == [zero |-> TRUE, neg |-> FALSE, m |-> <<>>, e |-> 0]

\* binary digits of a natural number, most significant first (0 has none)
RECURSIVE Bits(_)
Bits(n) == IF n = 0 THEN <<>> ELSE Bits(n \div 2) \o <<n % 2>>

\* the value of a short bit sequence, and the w low bits of a number
RECURSIVE BitsToInt(_)
BitsToInt(b) ==
    IF b = <<>> THEN 0 ELSE 2 * BitsToInt(SubSeq(b, 1, Len(b) - 1)) + b[Len(b)]

FixedBits(v, w) == [i \in 1..w |-> (v \div 2^(w - i)) % 2]

Max(S) == CHOOSE x \in S : \A y \in S : y <= x
Min(S) == CHOOSE x \in S : \A y \in S : x <= y

\* the k-th smallest element of a finite set of integers (used to state
\* the properties below)
Nth(S, k) == CHOOSE x \in S : Cardinality({y \in S : y < x}) = k - 1

\* bits + 1 (one bit longer when every bit was 1)
Incr(b) ==
    LET zs == {i \in 1..Len(b) : b[i] = 0}
    IN IF zs = {} THEN <<1>> \o Zeros(Len(b))
       ELSE [i \in 1..Len(b) |->
                IF i < Max(zs) THEN b[i] ELSE IF i = Max(zs) THEN 1 ELSE 0]

DropLeadingZeros(b) ==
    LET os == {i \in 1..Len(b) : b[i] = 1}
    IN IF os = {} THEN <<>> ELSE SubSeq(b, Min(os), Len(b))

\* Round the exact magnitude given by bits (bits[1] = 1, exponent e, and a
\* non-zero tail beyond bits when sticky) to Prec bits, ties to even.
RoundBits(neg, bits, e, sticky) ==
    LET b == IF Len(bits) > Prec THEN bits
             ELSE bits \o Zeros(Prec + 1 - Len(bits))
        keep == SubSeq(b, 1, Prec)
        guard == b[Prec + 1]
        rest == sticky \/ \E i \in (Prec + 2)..Len(b) : b[i] = 1
        up == guard = 1 /\ (rest \/ keep[Prec] = 1)
        inc == Incr(keep)
    IN IF ~up THEN [zero |-> FALSE, neg |-> neg, m |-> keep, e |-> e]
       ELSE IF Len(inc) > Prec
            THEN [zero |-> FALSE, neg |-> neg, m |-> SubSeq(inc, 1, Prec), e |-> e + 1]
            ELSE [zero |-> FALSE, neg |-> neg, m |-> inc, e |-> e]

\* float(n) for a positive int n below 2^53
FromInt(n) == RoundBits(FALSE, Bits(n), Len(Bits(n)) - 1, FALSE)

\* 2^k mod n
RECURSIVE Pow2Mod(_, _)
Pow2Mod(k, n) ==
    IF k = 0 THEN 1 % n
    ELSE LET h == Pow2Mod(k \div 2, n)
         IN (((h * h) % n) * (IF k % 2 = 1 THEN 2 ELSE 1)) % n

\* the next k binary digits of r/n (0 <= r < n), and the remainder left:
\* long division, whose remainder after j digits is r * 2^j mod n
FracBits(r, n, k) ==
    LET rem(j) == (r * Pow2Mod(j, n)) % n
    IN [bits |-> [j \in 1..k |-> IF 2 * rem(j - 1) >= n THEN 1 ELSE 0],
        rem |-> rem(k)]

RECURSIVE ShiftUntil(_, _, _)
ShiftUntil(p, n, k) == IF p >= n THEN <<p, k>> ELSE ShiftUntil(2 * p, n, k + 1)

\* float(p) / float(n) for positive ints p, n
DivInt(p, n) ==
    LET sh == ShiftUntil(p, n, 0)
        ibits == Bits(sh[1] \div n)
        fr == FracBits(sh[1] % n, n, Prec + 1 - Len(ibits))
    IN RoundBits(FALSE, ibits \o fr.bits, Len(ibits) - 1 - sh[2], fr.rem # 0)

\* bits * n + carry, exactly
RECURSIVE MulAcc(_, _, _)
MulAcc(b, n, carry) ==
    IF b = <<>> THEN Bits(carry)
    ELSE LET k == IF Len(b) < 8 THEN Len(b) ELSE 8
             t == BitsToInt(SubSeq(b, Len(b) - k + 1, Len(b))) * n + carry
         IN MulAcc(SubSeq(b, 1, Len(b) - k), n, t \div 2^k)
            \o FixedBits(t % 2^k, k)

\* n * f for a positive int n and a positive float f
MulInt(n, f) ==
    LET prod == MulAcc(f.m, n, 0)
    IN RoundBits(f.neg, prod, f.e + (Len(prod) - Prec), FALSE)

BitsLess(a, b) ==
    \E i \in 1..Len(a) : a[i] < b[i] /\ \A j \in 1..(i - 1) : a[j] = b[j]

\* a < b for positive floats
FLess(a, b) == a.e < b.e \/ (a.e = b.e /\ BitsLess(a.m, b.m))

\* min(a, b) of Python: the first argument unless the second is smaller
FMaxWrong(a, b) == IF FLess(a, b) THEN b ELSE a
FMin(a, b) == IF FLess(b, a) THEN b ELSE a

\* x - y - borrow on equally long bit sequences with x >= y
RECURSIVE SubAcc(_, _, _)
SubAcc(x, y, borrow) ==
    IF x = <<>> THEN <<>>
    ELSE LET k == IF Len(x) < 8 THEN Len(x) ELSE 8
             t == BitsToInt(SubSeq(x, Len(x) - k + 1, Len(x)))
                  - BitsToInt(SubSeq(y, Len(y) - k + 1, Len(y))) - borrow
         IN SubAcc(SubSeq(x, 1, Len(x) - k), SubSeq(y, 1, Len(y) - k),
                   IF t < 0 THEN 1 ELSE 0)
            \o FixedBits(IF t < 0 THEN t + 2^k ELSE t, k)

\* the exact difference big - small (big > small > 0) as bits and exponent
ExactDiff(big, small) ==
    LET d == big.e - small.e
        raw == SubAcc(big.m \o Zeros(d), Zeros(d) \o small.m, 0)
        nz == DropLeadingZeros(raw)
    IN [bits |-> nz, e |-> big.e - (Len(raw) - Len(nz))]

\* a - b for positive floats
FSub(a, b) ==
    IF a = b THEN FZero
    ELSE LET neg == FLess(a, b)
             dif == IF neg THEN ExactDiff(b, a) ELSE ExactDiff(a, b)
         IN RoundBits(neg, dif.bits, dif.e, FALSE)

\* f / 2
FHalf(f) == IF f.zero THEN f ELSE [f EXCEPT !.e = f.e - 1]

(***************************************************************************)
(* Specification of the name normalizer: any input string, one call.       *)
(***************************************************************************)
Strings(n) == UNION {[1..k -> Alphabet] : k \in 0..n}

\* The render function (add_text_to_image_and_convert_to_pdf in variant A,
\* add_texts_to_image_and_convert_to_pdf in variant B).  env says what the
\* file system and the libraries do during the call: stage is the step that
\* raises ("none": no step does), the other fields say whether the explicit
\* font file exists, whether it loads, whether the platform font loads and
\* whether os.remove succeeds.
Stages == {"open", "draw", "save", "export", "none"}
RenderEnv ==
    [stage : Stages, fontExists : BOOLEAN, fontLoads : BOOLEAN,
     sysFontLoads : BOOLEAN, removeOk : BOOLEAN]
None == <<>>
NoEnv == [stage |-> "none", fontExists |-> FALSE, fontLoads |-> FALSE,
          sysFontLoads |-> FALSE, removeOk |-> FALSE]
NoRet == [result |-> None, font |-> "none", tempWritten |-> FALSE,
          removeAttempted |-> FALSE, tempLeft |-> FALSE, outWritten |-> FALSE,
          errorPrinted |-> FALSE, warned |-> FALSE]

\* variant A, lines 38-67
FontChainA(font_path, env) ==
    IF font_path = "given" /\ env.fontExists /\ env.fontLoads THEN "explicit"
    ELSE IF env.sysFontLoads THEN "system"
    ELSE "builtin"

FontA(font_path, env) ==
    IF font_path = "given" /\ env.fontExists
    THEN IF env.fontLoads THEN "explicit" ELSE "builtin"
    ELSE IF env.sysFontLoads THEN "system" ELSE "builtin"

\* variant B, add_centered_text, lines 65-70
FontB(env) == IF env.sysFontLoads THEN "system" ELSE "builtin"

ResolveFont(variant, font_path, env) ==
    IF variant = "A" THEN FontA(font_path, env) ELSE FontB(env)

OutputNameNoReplace(text) == Strip(text) \o <<".pdf">>

\* f"{text.strip().replace(' ', '_')}.pdf"
OutputName(text) == ReplaceSpaces(Strip(text)) \o <<".pdf">>

\* the whole call: what it returns and what it leaves on disk
Render(variant, text, font_path, env) ==
    LET failed_ == [NoRet EXCEPT !.errorPrinted = TRUE]
    IN IF env.stage = "open" THEN failed_
       ELSE LET font == ResolveFont(variant, font_path, env)
            IN IF env.stage \in {"draw", "save"}
               THEN [failed_ EXCEPT !.font = font]
               ELSE IF env.stage = "export"
               THEN [failed_ EXCEPT !.font = font, !.tempWritten = TRUE,
                                    !.tempLeft = TRUE]
               ELSE [result |-> OutputName(text), font |-> font,
                     tempWritten |-> TRUE, removeAttempted |-> TRUE,
                     tempLeft |-> ~env.removeOk, outWritten |-> TRUE,
                     errorPrinted |-> FALSE, warned |-> ~env.removeOk]

NoScale == [ratio |-> FZero, img_width |-> FZero, img_height |-> FZero,
            x_centered |-> FZero, y_centered |-> FZero]

TitleIdle == tInput = <<>> /\ tOutput = <<>> /\ tPc = "off"
ScaleIdle == sW = 0 /\ sH = 0 /\ sOut = NoScale /\ sPc = "off"
MainIdle ==
    /\ mVariant = "A" /\ argc = 0 /\ badArg = 0 /\ mPc = "off"
    /\ mFontPath = "none" /\ mFontSize = "default"
RenderIdle ==
    /\ rVariant = "A" /\ rText = <<>> /\ rFontPath = "none" /\ rEnv = NoEnv
    /\ rRet = NoRet /\ rPc = "off"
ConcIdle ==
    /\ cPc = <<>> /\ cId = <<>> /\ disk = <<>> /\ embedded = <<>>
    /\ overwrote = <<>> /\ deleted = <<>>
BatchIdle ==
    /\ bVariant = "A" /\ bFontPath = "none" /\ fileOk = FALSE
    /\ fileLines = <<>> /\ bPc = "off" /\ names = <<>> /\ total_names = 0
    /\ idx = 0 /\ successful = 0 /\ failed = 0 /\ rendered = <<>>
    /\ results = <<>> /\ outFiles = {} /\ tempFiles = {} /\ printed = <<>>

InitTitle ==
    /\ tInput \in Strings(MaxLen)
    /\ tOutput = <<>>
    /\ tPc = "call"
    /\ ScaleIdle /\ MainIdle /\ RenderIdle /\ BatchIdle /\ ConcIdle

TitleCall ==
    /\ tPc = "call"
    /\ tOutput' = title_case_name(tInput)
    /\ tPc' = "returned"
    /\ UNCHANGED <<tInput, notTitle>>

NextTitle == TitleCall

SpecTitle == InitTitle /\ [][NextTitle]_vars

-------------------------------------------------------------------------
(***************************************************************************)
(* Page exporter: landscape(letter) is 792 x 612 points.                   *)
(***************************************************************************)
PageWidth == 792
PageHeight == 612
MaxDim == 40

\* lines 91-106: the factor, the drawn size and the drawn position
ScaleToPage(img_width, img_height) ==
    LET width == FromInt(PageWidth)
        height == FromInt(PageHeight)
        ratio == FMin(DivInt(PageWidth, img_width), DivInt(PageHeight, img_height))
        w == MulInt(img_width, ratio)
        h == MulInt(img_height, ratio)
    IN [ratio |-> ratio, img_width |-> w, img_height |-> h,
        x_centered |-> FHalf(FSub(width, w)),
        y_centered |-> FHalf(FSub(height, h))]

InitScale ==
    /\ sW \in 1..MaxDim
    /\ sH \in 1..MaxDim
    /\ sOut = NoScale
    /\ sPc = "export"
    /\ TitleIdle /\ MainIdle /\ RenderIdle /\ BatchIdle /\ ConcIdle

Export ==
    /\ sPc = "export"
    /\ sOut' = ScaleToPage(sW, sH)
    /\ sPc' = "drawn"
    /\ UNCHANGED <<sW, sH, notScale>>

NextScale == Export

SpecScale == InitScale /\ [][NextScale]_vars

-------------------------------------------------------------------------
(***************************************************************************)
(* main.  argc is len(sys.argv), so argv[1..argc-1] are the positional      *)
(* arguments; badArg is the position of the first argument that int()       *)
(* rejects among those main converts, 0 when there is none.                 *)
(*   Variant A: script.py  <image> <names_file> <x> <y> [font_path]         *)
(*              [font_size]                                                 *)
(*   Variant B: Certificate for Winners/script.py, 13 positional arguments  *)
(***************************************************************************)
MaxArgc == 14

\* the positions main passes to int(), in the order it converts them
IntArgsA == <<3, 4, 6>>
IntArgsB == <<3, 4, 5, 7, 8, 9, 11, 12, 13>>
Range(f) == {f[i] : i \in DOMAIN f}

\* the number of positional arguments the usage text lists as required
RequiredArgs(v) == IF v = "A" THEN 4 ELSE 13

InitMain ==
    /\ mVariant \in {"A", "B"}
    /\ argc \in 1..MaxArgc
    /\ badArg \in {0} \cup Range(IF mVariant = "A" THEN IntArgsA ELSE IntArgsB)
    /\ mPc = "start"
    /\ mFontPath = "none"
    /\ mFontSize = "default"
    /\ TitleIdle /\ ScaleIdle /\ RenderIdle /\ BatchIdle /\ ConcIdle

\* reading argv[i] raises IndexError when i >= argc; int(argv[i]) raises
\* ValueError when argv[i] is not a number
IndexError(i) == i >= argc
IntFails(i) == i >= argc \/ badArg = i

\* script.py, main
MainA ==
    /\ mPc = "start" /\ mVariant = "A"
    /\ IF argc < 4
       THEN mPc' = "usage" /\ UNCHANGED <<mFontPath, mFontSize>>
       ELSE IF IntFails(3) \/ IntFails(4)
       THEN mPc' = "raised" /\ UNCHANGED <<mFontPath, mFontSize>>
       ELSE IF argc >= 7 /\ IntFails(6)
       THEN mPc' = "raised" /\ UNCHANGED <<mFontPath, mFontSize>>
       ELSE /\ mPc' = "batch"
            /\ mFontPath' = IF argc >= 6 THEN "given" ELSE "none"
            /\ mFontSize' = IF argc >= 7 THEN "given" ELSE "default"
    /\ UNCHANGED <<mVariant, argc, badArg, notMain>>

\* Certificate for Winners/script.py, main
MainB ==
    /\ mPc = "start" /\ mVariant = "B"
    /\ IF argc < 11
       THEN mPc' = "usage"
       ELSE IF \E i \in {1, 2, 6, 10} : IndexError(i)
       THEN mPc' = "raised"
       ELSE IF \E k \in 1..Len(IntArgsB) : IntFails(IntArgsB[k])
       THEN mPc' = "raised"
       ELSE mPc' = "batch"
    /\ mFontSize' = IF mPc' = "batch" THEN "given" ELSE mFontSize
    /\ UNCHANGED <<mVariant, argc, badArg, mFontPath, notMain>>

NextMain == MainA \/ MainB

SpecMain == InitMain /\ [][NextMain]_vars

\* C4: whenever a required positional argument is missing (and every
\* argument given where a number is expected is a number), main prints the
\* usage text and returns without raising and without starting the batch;
\* the batch starts only when all required arguments are present.
C4_UsageWhenArgsMissing ==
    /\ (/\ mPc \in {"usage", "raised", "batch"}
        /\ badArg = 0
        /\ argc - 1 < RequiredArgs(mVariant))
          => mPc = "usage"
    /\ mPc = "batch" => argc - 1 >= RequiredArgs(mVariant)

-------------------------------------------------------------------------
(***************************************************************************)
(* One call of the render function, in any environment.                    *)
(***************************************************************************)
Texts == {<<"A">>, <<"A", " ", "B">>}

InitRender ==
    /\ rVariant \in {"A", "B"}
    /\ rText \in Texts
    /\ rFontPath \in (IF rVariant = "A" THEN {"none", "given"} ELSE {"none"})
    /\ rEnv \in RenderEnv
    /\ rRet = NoRet
    /\ rPc = "call"
    /\ TitleIdle /\ ScaleIdle /\ MainIdle /\ BatchIdle /\ ConcIdle

RenderCall ==
    /\ rPc = "call"
    /\ rRet' = Render(rVariant, rText, rFontPath, rEnv)
    /\ rPc' = "returned"
    /\ UNCHANGED <<rVariant, rText, rFontPath, rEnv, notRender>>

NextRender == RenderCall

SpecRender == InitRender /\ [][NextRender]_vars

\* C5: a call that wrote the temporary raster attempts to remove it before
\* it returns, on every return path, so that no temporary raster is left
\* when no removal fails.
C5_TempRemovedOnEveryPath ==
    (rPc = "returned" /\ rRet.tempWritten) =>
        /\ rRet.removeAttempted
        /\ (rEnv.removeOk => ~rRet.tempLeft)

\* C6 (as stated): the explicit font is used when it is given, exists and
\* loads; otherwise the platform font when it loads; the built-in face only
\* when neither loads; and no font outcome makes the render fail.
C6_FontChain ==
    (rPc = "returned" /\ rEnv.stage # "open") =>
        /\ rRet.font =
              IF rVariant = "A" /\ rFontPath = "given" /\ rEnv.fontExists
                 /\ rEnv.fontLoads
              THEN "explicit"
              ELSE IF rEnv.sysFontLoads THEN "system" ELSE "builtin"
        /\ (rEnv.stage = "none" => rRet.result # None)

\* C6 (amended): the explicit font is used when it is given, exists and
\* loads; the platform font is tried only when no explicit font is given or
\* the given file does not exist, and is used when it loads; in every other
\* case, also when the given file exists but does not load, the built-in
\* face is used.  No font outcome makes the render fail: a call in which no
\* other step raises returns the output file name.
C6_FontResolution ==
    (rPc = "returned" /\ rEnv.stage # "open") =>
        LET explicitFound == rVariant = "A" /\ rFontPath = "given"
                             /\ rEnv.fontExists
        IN /\ (rRet.font = "explicit") = (explicitFound /\ rEnv.fontLoads)
           /\ (rRet.font = "system") = (~explicitFound /\ rEnv.sysFontLoads)
           /\ (rRet.font = "builtin") =
                 \/ explicitFound /\ ~rEnv.fontLoads
                 \/ ~explicitFound /\ ~rEnv.sysFontLoads
           /\ (rEnv.stage = "none" => rRet.result = OutputName(rText))
           /\ (rRet.result = None => rEnv.stage # "none")

\* the explicit font exists but does not load while the platform font would:
\* the built-in face is used and the item is rendered
C6_Witness ==
    /\ rPc = "returned"
    /\ rVariant = "A" /\ rFontPath = "given"
    /\ rEnv.fontExists /\ ~rEnv.fontLoads /\ rEnv.sysFontLoads
    /\ rEnv.stage = "none"
    /\ rRet.font = "builtin"
    /\ rRet.result # None

-------------------------------------------------------------------------
(***************************************************************************)
(* process_names_from_file.  fileLines are the lines of the names file     *)
(* without their line ends; fileOk says whether the file can be opened and *)
(* read.  outFiles holds a pair <<file name, item>> for every output        *)
(* document on disk, item being the loop index of the render that wrote    *)
(* it; tempFiles holds the suffixes of the temp_with_text_* files on disk. *)
(***************************************************************************)
MaxLines == 2
NumIds == 2

LineSet ==
    { <<>>,
      <<" ", "\t">>,
      <<"a", " ", "b">>,
      <<" ", "A", "\t", "B">>,
      <<"a", " ", "1">>,
      <<"a", "_", "1">> }

Files == UNION {[1..k -> LineSet] : k \in 0..MaxLines}

InitBatch ==
    /\ bVariant \in {"A", "B"}
    /\ bFontPath \in (IF bVariant = "A" THEN {"none", "given"} ELSE {"none"})
    /\ fileOk \in BOOLEAN
    /\ fileLines \in Files
    /\ bPc = "start"
    /\ names = <<>> /\ total_names = 0 /\ idx = 0
    /\ successful = 0 /\ failed = 0
    /\ rendered = <<>> /\ results = <<>>
    /\ outFiles = {} /\ tempFiles = {} /\ printed = <<>>
    /\ TitleIdle /\ ScaleIdle /\ MainIdle /\ RenderIdle /\ ConcIdle

\* a line of the transcript and the numbers it shows
Message(kind, s, f, t) ==
    [kind |-> kind, successful |-> s, failed |-> f, total |-> t]

\* a reader that keeps the blank lines
NonBlankLinesNoFilter(lines) == [i \in 1..Len(lines) |-> Strip(lines[i])]

\* [line.strip() for line in file if line.strip()]
NonBlankLines(lines) ==
    SelectSeq([i \in 1..Len(lines) |-> Strip(lines[i])], LAMBDA l : l # <<>>)

\* lines 161-166: the file is read
ReadNames ==
    /\ bPc = "start" /\ fileOk
    /\ names' = NonBlankLines(fileLines)
    /\ total_names' = Len(names')
    /\ printed' = Append(printed, Message("found", 0, 0, total_names'))
    /\ bPc' = "loop"
    /\ UNCHANGED <<bVariant, bFontPath, fileOk, fileLines, idx, successful,
                   failed, rendered, results, outFiles, tempFiles, notBatch>>

\* a reader that goes on with the lines it has after a failure
ReadFailsGoesOn ==
    /\ bPc = "start" /\ ~fileOk
    /\ names' = NonBlankLines(fileLines)
    /\ total_names' = Len(names')
    /\ printed' = Append(printed, Message("error", 0, 0, 0))
    /\ bPc' = "loop"
    /\ UNCHANGED <<bVariant, bFontPath, fileOk, fileLines, idx, successful,
                   failed, rendered, results, outFiles, tempFiles, notBatch>>

\* lines 161 and 189-191: open() or the read raises
ReadFails ==
    /\ bPc = "start" /\ ~fileOk
    /\ printed' = Append(printed, Message("error", 0, 0, 0))
    /\ bPc' = "returned"
    /\ UNCHANGED <<bVariant, bFontPath, fileOk, fileLines, names, total_names,
                   idx, successful, failed, rendered, results, outFiles,
                   tempFiles, notBatch>>

\* a loop that gives up at the first item that fails
ProcessItemStopOnFailure ==
    /\ bPc = "loop" /\ idx < total_names
    /\ \E env \in RenderEnv, id \in 1..NumIds :
          LET ret == Render(bVariant, title_case_name(names[idx + 1]),
                            bFontPath, env)
          IN /\ rendered' = Append(rendered, title_case_name(names[idx + 1]))
             /\ results' = Append(results, ret.result)
             /\ tempFiles' = IF ret.tempLeft THEN tempFiles \cup {id}
                             ELSE IF ret.tempWritten THEN tempFiles \ {id}
                             ELSE tempFiles
             /\ outFiles' =
                   IF ret.outWritten
                   THEN {f \in outFiles : f[1] # ret.result}
                        \cup {<<ret.result, idx + 1>>}
                   ELSE outFiles
             /\ IF ret.result # None
                THEN successful' = successful + 1 /\ failed' = failed
                     /\ bPc' = bPc
                ELSE failed' = failed + 1 /\ successful' = successful
                     /\ bPc' = "returned"
    /\ idx' = idx + 1
    /\ printed' = printed
    /\ UNCHANGED <<bVariant, bFontPath, fileOk, fileLines, names, total_names,
                   notBatch>>

\* lines 168-183: one iteration of the loop
ProcessItem ==
    /\ bPc = "loop" /\ idx < total_names
    /\ \E env \in RenderEnv, id \in 1..NumIds :
          LET properly_cased_name == title_case_name(names[idx + 1])
              ret == Render(bVariant, properly_cased_name, bFontPath, env)
          IN /\ rendered' = Append(rendered, properly_cased_name)
             /\ results' = Append(results, ret.result)
             /\ tempFiles' = IF ret.tempLeft THEN tempFiles \cup {id}
                             ELSE IF ret.tempWritten THEN tempFiles \ {id}
                             ELSE tempFiles
             /\ outFiles' =
                   IF ret.outWritten
                   THEN {f \in outFiles : f[1] # ret.result}
                        \cup {<<ret.result, idx + 1>>}
                   ELSE outFiles
             /\ IF ret.result # None
                THEN successful' = successful + 1 /\ failed' = failed
                ELSE failed' = failed + 1 /\ successful' = successful
    /\ idx' = idx + 1
    /\ UNCHANGED <<bVariant, bFontPath, fileOk, fileLines, bPc, names,
                   total_names, printed, notBatch>>

\* lines 185-187: the loop is over
PrintSummary ==
    /\ bPc = "loop" /\ idx = total_names
    /\ printed' = Append(printed,
                         Message("summary", successful, failed, total_names))
    /\ bPc' = "returned"
    /\ UNCHANGED <<bVariant, bFontPath, fileOk, fileLines, names, total_names,
                   idx, successful, failed, rendered, results, outFiles,
                   tempFiles, notBatch>>

NextBatch == ReadNames \/ ReadFails \/ ProcessItem \/ PrintSummary

SpecBatch == InitBatch /\ [][NextBatch]_vars

-------------------------------------------------------------------------
(***************************************************************************)
(* C1, C2, C3, C9                                                          *)
(***************************************************************************)
\* the lines of the file that hold a character other than whitespace
NonBlankIdx(lines) ==
    {i \in 1..Len(lines) : \E j \in 1..Len(lines[i]) : ~IsSpace(lines[i][j])}
\* the names the loop is to render, in file order
Expected(lines) ==
    [k \in 1..Cardinality(NonBlankIdx(lines)) |->
        title_case_name(lines[Nth(NonBlankIdx(lines), k)])]
Succeeded == {i \in 1..Len(results) : results[i] # None}
SummaryPrinted == \E k \in 1..Len(printed) : printed[k].kind = "summary"

\* C1: when the names file can be read, successful + failed is the number
\* of items processed so far at every point of the loop, and the summary
\* shows successful + failed = total, total being the number of lines that
\* are not blank after trimming.
C1_Tally ==
    fileOk =>
        /\ successful + failed = idx
        /\ idx = Len(results)
        /\ successful = Cardinality(Succeeded)
        /\ bPc # "start" => total_names = Cardinality(NonBlankIdx(fileLines))
        /\ \A k \in 1..Len(printed) :
              printed[k].kind = "summary" =>
                 /\ printed[k].successful + printed[k].failed = printed[k].total
                 /\ printed[k].total = Cardinality(NonBlankIdx(fileLines))
                 /\ printed[k].successful = Cardinality(Succeeded)

\* a file of two lines, one of them blank: one item is processed and counted
C1_Witness ==
    /\ fileOk /\ bPc = "returned" /\ SummaryPrinted
    /\ Len(fileLines) = 2
    /\ total_names = 1
    /\ successful + failed = 1

C3_UnreadableFile ==
    ~fileOk =>
        /\ rendered = <<>> /\ results = <<>>
        /\ outFiles = {} /\ tempFiles = {}
        /\ successful = 0 /\ failed = 0
        /\ ~SummaryPrinted
        /\ bPc \in {"start", "returned"}
        /\ bPc = "returned" => printed = <<Message("error", 0, 0, 0)>>

C3_Witness ==
    /\ ~fileOk /\ bPc = "returned"
    /\ NonBlankIdx(fileLines) # {}
    /\ printed = <<Message("error", 0, 0, 0)>>

\* the file name of a rendered name: its spaces replaced, ".pdf" appended
FileNameOf(n) ==
    [k \in 1..(Len(n) + 1) |->
        IF k = Len(n) + 1 THEN ".pdf" ELSE IF n[k] = " " THEN "_" ELSE n[k]]
FileNames == {f[1] : f \in outFiles}
SucceededNames == {rendered[i] : i \in Succeeded}

\* C9 (as stated): the number of output files equals the number of distinct
\* normalized names among the successful items.
C9_FileCountIsDistinctNames ==
    Cardinality(FileNames) = Cardinality(SucceededNames)

\* C9 (amended): a successful render of the normalized name n returns and
\* writes n with its spaces replaced by "_" plus ".pdf", which holds no
\* whitespace; the output documents are exactly the file names of the
\* successful items, each holding the latest successful render of that file
\* name; their number is the number of distinct file names among the
\* successful items, which is at most the number of distinct normalized
\* names among them and at most the successful count.
C9_OutputFiles ==
    /\ \A i \in Succeeded :
          /\ results[i] = FileNameOf(rendered[i])
          /\ \A k \in 1..Len(results[i]) : ~IsSpace(results[i][k])
    /\ FileNames = {results[i] : i \in Succeeded}
    /\ \A f \in outFiles :
          /\ f[2] \in Succeeded
          /\ results[f[2]] = f[1]
          /\ \A i \in Succeeded : results[i] = f[1] => i <= f[2]
    /\ Cardinality(outFiles) = Cardinality(FileNames)
    /\ Cardinality(FileNames) = Cardinality({FileNameOf(n) : n \in SucceededNames})
    /\ Cardinality(FileNames) <= Cardinality(SucceededNames)
    /\ Cardinality(SucceededNames) <= successful

\* two lines that differ in case and spacing: both succeed, one file, which
\* holds the second render
C9_Witness ==
    /\ bPc = "returned" /\ successful = 2 /\ Len(results) = 2
    /\ names[1] # names[2]
    /\ rendered[1] = rendered[2]
    /\ outFiles = {<<FileNameOf(rendered[2]), 2>>}

-------------------------------------------------------------------------
(***************************************************************************)
(* Two runs of the tool as separate processes in one working directory,    *)
(* each inside one call of the render function, their steps interleaved.   *)
(* The suffix of the temporary raster is str(uuid.uuid4())[:8], any of the *)
(* 16^8 strings of eight hexadecimal digits; 1..NumIds stands for them.    *)
(* disk[i] is the process whose raster temp_with_text_<i>.jpg holds, 0     *)
(* when there is no such file.                                             *)
(***************************************************************************)
Procs == {1, 2}

InitConc ==
    /\ cPc = [p \in Procs |-> "start"]
    /\ cId = [p \in Procs |-> 0]
    /\ disk = [i \in 1..NumIds |-> 0]
    /\ embedded = [p \in Procs |-> 0]
    /\ overwrote = [p \in Procs |-> FALSE]
    /\ deleted = [p \in Procs |-> 0]
    /\ TitleIdle /\ ScaleIdle /\ MainIdle /\ RenderIdle /\ BatchIdle

\* lines 26-27: the temporary path is chosen
GenId(p) ==
    /\ cPc[p] = "start"
    /\ \E i \in 1..NumIds : cId' = [cId EXCEPT ![p] = i]
    /\ cPc' = [cPc EXCEPT ![p] = "draw"]
    /\ UNCHANGED <<disk, embedded, overwrote, deleted, notConc>>

\* lines 30-82: the template is opened and the text drawn, or a step raises
OpenAndDraw(p) ==
    /\ cPc[p] = "draw"
    /\ \E ok \in BOOLEAN : cPc' = [cPc EXCEPT ![p] = IF ok THEN "save" ELSE "done"]
    /\ UNCHANGED <<cId, disk, embedded, overwrote, deleted, notConc>>

\* line 85: img_copy.save(temp_image_path) creates or overwrites the file
SaveTemp(p) ==
    /\ cPc[p] = "save"
    /\ disk' = [disk EXCEPT ![cId[p]] = p]
    /\ overwrote' = [overwrote EXCEPT ![p] = disk[cId[p]] \notin {0, p}]
    /\ cPc' = [cPc EXCEPT ![p] = "export"]
    /\ UNCHANGED <<cId, embedded, deleted, notConc>>

\* lines 88-110: the page is built from the file at temp_image_path; a
\* missing file, or any other failure, ends the call
ExportPage(p) ==
    /\ cPc[p] = "export"
    /\ \E ok \in BOOLEAN :
          IF ok /\ disk[cId[p]] # 0
          THEN /\ embedded' = [embedded EXCEPT ![p] = disk[cId[p]]]
               /\ cPc' = [cPc EXCEPT ![p] = "remove"]
          ELSE /\ embedded' = embedded
               /\ cPc' = [cPc EXCEPT ![p] = "done"]
    /\ UNCHANGED <<cId, disk, overwrote, deleted, notConc>>

\* lines 116-120: os.remove(temp_image_path); a missing file is a warning
RemoveTemp(p) ==
    /\ cPc[p] = "remove"
    /\ deleted' = [deleted EXCEPT ![p] = disk[cId[p]]]
    /\ disk' = [disk EXCEPT ![cId[p]] = 0]
    /\ cPc' = [cPc EXCEPT ![p] = "done"]
    /\ UNCHANGED <<cId, embedded, overwrote, notConc>>

NextConc ==
    \E p \in Procs :
       GenId(p) \/ OpenAndDraw(p) \/ SaveTemp(p) \/ ExportPage(p) \/ RemoveTemp(p)

SpecConc == InitConc /\ [][NextConc]_vars

\* C10: the temporary paths of two concurrent runs never coincide, so no
\* process overwrites, embeds into its page or deletes a temporary raster
\* written by the other.
C10_TempPathsNeverCoincide ==
    /\ \A p \in Procs, q \in Procs :
          (p # q /\ cId[p] # 0 /\ cId[q] # 0
           /\ cPc[p] # "done" /\ cPc[q] # "done") => cId[p] # cId[q]
    /\ \A p \in Procs :
          /\ ~overwrote[p]
          /\ embedded[p] \in {0, p}
          /\ deleted[p] \in {0, p}

-------------------------------------------------------------------------
(***************************************************************************)
(* C7                                                                      *)
(***************************************************************************)
FLeq(a, b) == a = b \/ FLess(a, b)
\* bits - 1, for bits > 0
Decr(b) ==
    LET os == {i \in 1..Len(b) : b[i] = 1}
    IN [i \in 1..Len(b) |->
           IF i < Max(os) THEN b[i] ELSE IF i = Max(os) THEN 0 ELSE 1]
\* the doubles next above and next below a positive double
FSucc(f) ==
    IF Len(Incr(f.m)) > Prec
    THEN [f EXCEPT !.m = SubSeq(Incr(f.m), 1, Prec), !.e = f.e + 1]
    ELSE [f EXCEPT !.m = Incr(f.m)]
FPred(f) ==
    IF Decr(f.m)[1] = 0
    THEN [f EXCEPT !.m = [i \in 1..Prec |-> 1], !.e = f.e - 1]
    ELSE [f EXCEPT !.m = Decr(f.m)]
\* -(2^k)
NegPow2(k) == [zero |-> FALSE, neg |-> TRUE, m |-> <<1>> \o Zeros(Prec - 1), e |-> k]
WidthLimited == PageWidth * sH <= PageHeight * sW

\* C7 (as stated): the drawn image is (r*W, r*H) with r = min(Pw/W, Ph/H),
\* lies inside the page with equality on at least one axis, and its margins
\* are non-negative.
C7_ExactLaw ==
    sPc = "drawn" =>
        /\ sOut.ratio = IF WidthLimited THEN DivInt(PageWidth, sW)
                        ELSE DivInt(PageHeight, sH)
        /\ FLeq(sOut.img_width, FromInt(PageWidth))
        /\ FLeq(sOut.img_height, FromInt(PageHeight))
        /\ \/ sOut.img_width = FromInt(PageWidth)
           \/ sOut.img_height = FromInt(PageHeight)
        /\ ~sOut.x_centered.neg
        /\ ~sOut.y_centered.neg

\* C7 (amended): one factor r, the smaller of the doubles Pw/W and Ph/H, is
\* used for both axes; no drawn dimension exceeds its page dimension by more
\* than one unit in the last place, the dimension of the limiting axis is
\* within one unit in the last place of the page dimension, and a margin is
\* zero when the dimension equals the page's, positive when it is smaller,
\* and -2^-44 when it is the next double above.
C7_ScalingLaw ==
    sPc = "drawn" =>
        LET pw == FromInt(PageWidth)
            ph == FromInt(PageHeight)
            lim == IF WidthLimited THEN sOut.img_width ELSE sOut.img_height
            page == IF WidthLimited THEN pw ELSE ph
            Margin(m, drawn, pg) ==
                /\ m.zero = (drawn = pg)
                /\ m.neg = FLess(pg, drawn)
                /\ m.neg => m = NegPow2(-44)
                /\ (~m.neg /\ ~m.zero) => FLess(m, pg)
        IN /\ sOut.ratio = IF WidthLimited THEN DivInt(PageWidth, sW)
                           ELSE DivInt(PageHeight, sH)
           /\ FLeq(sOut.ratio, DivInt(PageWidth, sW))
           /\ FLeq(sOut.ratio, DivInt(PageHeight, sH))
           /\ sOut.img_width = MulInt(sW, sOut.ratio)
           /\ sOut.img_height = MulInt(sH, sOut.ratio)
           /\ FLeq(sOut.img_width, FSucc(pw))
           /\ FLeq(sOut.img_height, FSucc(ph))
           /\ FLeq(FPred(page), lim)
           /\ Margin(sOut.x_centered, sOut.img_width, pw)
           /\ Margin(sOut.y_centered, sOut.img_height, ph)

\* a 37 x 20 raster: the width is the limiting axis and is drawn one unit in
\* the last place wider than the page
C7_Witness ==
    /\ sPc = "drawn"
    /\ sW = 37 /\ sH = 20
    /\ sOut.img_width = FSucc(FromInt(PageWidth))
    /\ sOut.x_centered = NegPow2(-44)
    /\ FLess(sOut.img_height, FromInt(PageHeight))

-------------------------------------------------------------------------
(***************************************************************************)
(* C8                                                                      *)
(***************************************************************************)
\* positions of s that start a word / that hold a non-whitespace character
WordStarts(s) ==
    {i \in 1..Len(s) : ~IsSpace(s[i]) /\ (i = 1 \/ IsSpace(s[i - 1]))}
Solid(s) == {i \in 1..Len(s) : ~IsSpace(s[i])}

\* C8: for every input, the result of title_case_name has as many words as
\* the input, single spaces between them and no other whitespace, and its
\* words are the input's words with the first character upper-cased and the
\* others lower-cased; an input that is blank after trimming gives "".
C8_TitleCase ==
    tPc = "returned" =>
        LET i == tInput
            o == tOutput
        IN /\ Cardinality(WordStarts(o)) = Cardinality(WordStarts(i))
           /\ \A p \in 1..Len(o) : IsSpace(o[p]) =>
                 /\ o[p] = " "
                 /\ p > 1 /\ p < Len(o)
                 /\ ~IsSpace(o[p - 1])
           /\ Cardinality(Solid(o)) = Cardinality(Solid(i))
           /\ \A k \in 1..Cardinality(Solid(i)) :
                 LET pi == Nth(Solid(i), k)
                     po == Nth(Solid(o), k)
                 IN /\ (po \in WordStarts(o)) = (pi \in WordStarts(i))
                    /\ o[po] = IF pi \in WordStarts(i) THEN Upper(i[pi])
                               ELSE Lower(i[pi])
           /\ (Solid(i) = {} => o = <<>>)

C8_Witness ==
    /\ tPc = "returned"
    /\ tInput = <<"\t", "a", "B", " ">>
    /\ tOutput = <<"A", "b">>

=============================================================================
